---- MODULE Spec2Model ----
(***************************************************************************)
(* Model of the ink! contract ContractPublish (src/lib.rs): one listing,   *)
(* a map of pending buyers (possible_buyers_keys) and a map of confirmed   *)
(* buyers (buyers).  Every message is one atomic action; a message that    *)
(* returns Err leaves the storage and the balances as they were.           *)
(***************************************************************************)
EXTENDS Integers, Sequences, FiniteSets, TLC

\* ------------------------------------------------------------------ bounds
MaxPrice == 2
MaxValue == 2
MaxPosts == 2
MaxDepth == 2

\* ------------------------------------------------------- input domains
Accounts == {"alice", "bob", "charlie"}
\* the account that instantiates the contract (tests: the default caller)
Publishers == {"alice"}
PublicKeys == {"pk1", "pk2"}
\* the (encripted_symmetric_key, ipfs_song_address) pairs the owner delivers
Deliveries == {[key |-> "k1", loc |-> "Qm1"], [key |-> "k2", loc |-> "Qm2"]}
Prices == 1..MaxPrice
Values == 0..MaxValue
SongInfos == {[song_name |-> "s1", song_duration |-> "3:00", artist_name |-> "a1",
               album |-> "al1", watermark_image_ipfs |-> "QmImg"]}

\* Option::None of a Mapping lookup
None == [none |-> TRUE]

\* ------------------------------------------------------------------ state
VARIABLES song_info, owner, price, buyers, possible_buyers_keys,
          balance, last, escrowed, delivered, intentKey, published,
          nPosts, nTransfers, stack

storage == <<song_info, owner, price, buyers, possible_buyers_keys>>
vars == <<song_info, owner, price, buyers, possible_buyers_keys,
          balance, last, escrowed, delivered, intentKey, published,
          nPosts, nTransfers, stack>>

\* the contract instance as the handlers see it (&self plus its balance)
ContractPublish ==
  [song_info |-> song_info, owner |-> owner, price |-> price, buyers |-> buyers,
   possible_buyers_keys |-> possible_buyers_keys, balance |-> balance]

DistributedStorageInfo(location, key) == [location |-> location, key |-> key]
BuyerPublicKey(key) == [key |-> key]
NoInfo == DistributedStorageInfo("", "")

\* Mapping::contains / insert / remove
contains(m, a) == m[a] # None
insert(m, a, v) == [m EXCEPT ![a] = v]
remove(m, a) == [m EXCEPT ![a] = None]

\* result of a message: Ok/Err tag, returned value, storage after, amount sent
Outcome(res, ret, info, self, sent) ==
  [res |-> res, ret |-> ret, info |-> info, self |-> self, sent |-> sent]
Err(e, self) == Outcome(e, "", NoInfo, self, 0)

\* variant: the owner comparison never succeeds
is_caller_owner_Never(self, caller) == FALSE

is_caller_owner(self, caller) == caller = self.owner

\* variant: the author's name and the album's name stored in each other's field
publish_song_Swapped(caller, song, song_price) ==
  [song_info |-> [song EXCEPT !.artist_name = song.album, !.album = song.artist_name],
   owner |-> caller, price |-> song_price,
   buyers |-> [a \in Accounts |-> None],
   possible_buyers_keys |-> [a \in Accounts |-> None],
   balance |-> 0]

publish_song(caller, song, song_price) ==
  [song_info |-> song, owner |-> caller, price |-> song_price,
   buyers |-> [a \in Accounts |-> None],
   possible_buyers_keys |-> [a \in Accounts |-> None],
   balance |-> 0]

get_song_info(self) == [song_info |-> self.song_info, price |-> self.price]

\* variant: the check of lines 182-184 is missing
post_buy_intention_NoPaymentCheck(self, caller, transferred_value, buyer_public_key) ==
  IF is_caller_owner(self, caller) THEN Err("CallerIsOwner", self)
  ELSE IF contains(self.possible_buyers_keys, caller) THEN Err("AlreadyOnList", self)
  ELSE Outcome("Ok", "Buy intention posted", NoInfo,
               [self EXCEPT !.possible_buyers_keys =
                               insert(@, caller, BuyerPublicKey(buyer_public_key)),
                            !.balance = @ + transferred_value],
               0)

\* variant: the check of lines 178-180 is missing
post_buy_intention_NoListCheck(self, caller, transferred_value, buyer_public_key) ==
  IF is_caller_owner(self, caller) THEN Err("CallerIsOwner", self)
  ELSE IF transferred_value < self.price THEN Err("InsufficientBalance", self)
  ELSE Outcome("Ok", "Buy intention posted", NoInfo,
               [self EXCEPT !.possible_buyers_keys =
                               insert(@, caller, BuyerPublicKey(buyer_public_key)),
                            !.balance = @ + transferred_value],
               0)

\* variant: the value is checked before the list
post_buy_intention_BalanceFirst(self, caller, transferred_value, buyer_public_key) ==
  IF is_caller_owner(self, caller) THEN Err("CallerIsOwner", self)
  ELSE IF transferred_value < self.price THEN Err("InsufficientBalance", self)
  ELSE IF contains(self.possible_buyers_keys, caller) THEN Err("AlreadyOnList", self)
  ELSE Outcome("Ok", "Buy intention posted", NoInfo,
               [self EXCEPT !.possible_buyers_keys =
                               insert(@, caller, BuyerPublicKey(buyer_public_key)),
                            !.balance = @ + transferred_value],
               0)

\* variant: a value equal to the price is refused
post_buy_intention_StrictCheck(self, caller, transferred_value, buyer_public_key) ==
  IF is_caller_owner(self, caller) THEN Err("CallerIsOwner", self)
  ELSE IF contains(self.possible_buyers_keys, caller) THEN Err("AlreadyOnList", self)
  ELSE IF transferred_value <= self.price THEN Err("InsufficientBalance", self)
  ELSE Outcome("Ok", "Buy intention posted", NoInfo,
               [self EXCEPT !.possible_buyers_keys =
                               insert(@, caller, BuyerPublicKey(buyer_public_key)),
                            !.balance = @ + transferred_value],
               0)

\* variant: the threshold is the price plus half of it
post_buy_intention_WithCommission(self, caller, transferred_value, buyer_public_key) ==
  IF is_caller_owner(self, caller) THEN Err("CallerIsOwner", self)
  ELSE IF contains(self.possible_buyers_keys, caller) THEN Err("AlreadyOnList", self)
  ELSE IF transferred_value < self.price + (self.price \div 2)
       THEN Err("InsufficientBalance", self)
  ELSE Outcome("Ok", "Buy intention posted", NoInfo,
               [self EXCEPT !.possible_buyers_keys =
                               insert(@, caller, BuyerPublicKey(buyer_public_key)),
                            !.balance = @ + transferred_value],
               0)

post_buy_intention(self, caller, transferred_value, buyer_public_key) ==
  IF is_caller_owner(self, caller) THEN Err("CallerIsOwner", self)
  ELSE IF contains(self.possible_buyers_keys, caller) THEN Err("AlreadyOnList", self)
  ELSE IF transferred_value < self.price THEN Err("InsufficientBalance", self)
  ELSE Outcome("Ok", "Buy intention posted", NoInfo,
               [self EXCEPT !.possible_buyers_keys =
                               insert(@, caller, BuyerPublicKey(buyer_public_key)),
                            !.balance = @ + transferred_value],
               0)

\* variant: the check of lines 204-206 is missing
get_buyer_public_key_NoOwnerCheck(self, caller, buyer_key) ==
  IF self.possible_buyers_keys[buyer_key] = None
  THEN Err("NotOnPossibleBuyersList", self)
  ELSE Outcome("Ok", self.possible_buyers_keys[buyer_key].key, NoInfo, self, 0)

get_buyer_public_key(self, caller, buyer_key) ==
  IF ~is_caller_owner(self, caller) THEN Err("CallerIsNotOwner", self)
  ELSE IF self.possible_buyers_keys[buyer_key] = None
       THEN Err("NotOnPossibleBuyersList", self)
       ELSE Outcome("Ok", self.possible_buyers_keys[buyer_key].key, NoInfo, self, 0)

\* env().transfer(dest, amount): rejected when the contract cannot pay or
\* when the environment refuses (envOk = FALSE)
transfer(self, amount, envOk) == envOk /\ self.balance >= amount

\* variant: location and key stored in each other's field
allow_buyer_Swapped(self, encripted_symmetric_key, ipfs_song_address, buyer) ==
  [self EXCEPT !.possible_buyers_keys = remove(@, buyer),
               !.buyers = insert(@, buyer,
                   DistributedStorageInfo(encripted_symmetric_key, ipfs_song_address))]

\* variant: the remove of line 232 is missing
allow_buyer_KeepsIntent(self, encripted_symmetric_key, ipfs_song_address, buyer) ==
  [self EXCEPT !.buyers = insert(@, buyer,
                   DistributedStorageInfo(ipfs_song_address, encripted_symmetric_key))]

\* lines 232-239: the writes made once the transfer has succeeded
allow_buyer(self, encripted_symmetric_key, ipfs_song_address, buyer) ==
  [self EXCEPT !.possible_buyers_keys = remove(@, buyer),
               !.buyers = insert(@, buyer,
                   DistributedStorageInfo(ipfs_song_address, encripted_symmetric_key))]

\* variant: the result of the transfer is not looked at
set_new_allowed_buyer_IgnoresTransferError(self, caller, encripted_symmetric_key, ipfs_song_address, buyer, envOk) ==
  IF ~contains(self.possible_buyers_keys, buyer)
  THEN Err("NotOnPossibleBuyersList", self)
  ELSE LET paid == IF transfer(self, self.price, envOk) THEN self.price ELSE 0 IN
       Outcome("Ok", "Client added to buyers list", NoInfo,
               allow_buyer([self EXCEPT !.balance = @ - paid],
                           encripted_symmetric_key, ipfs_song_address, buyer),
               paid)

\* variant: the remove of line 232 comes before the transfer and stays when
\* the transfer is rejected
set_new_allowed_buyer_RemovesFirst(self, caller, encripted_symmetric_key, ipfs_song_address, buyer, envOk) ==
  IF ~contains(self.possible_buyers_keys, buyer)
  THEN Err("NotOnPossibleBuyersList", self)
  ELSE IF ~transfer(self, self.price, envOk)
       THEN Err("TransferError", [self EXCEPT !.possible_buyers_keys = remove(@, buyer)])
  ELSE Outcome("Ok", "Client added to buyers list", NoInfo,
               allow_buyer([self EXCEPT !.balance = @ - self.price],
                           encripted_symmetric_key, ipfs_song_address, buyer),
               self.price)

\* variant: the whole balance is sent to the owner
set_new_allowed_buyer_SendsBalance(self, caller, encripted_symmetric_key, ipfs_song_address, buyer, envOk) ==
  IF ~contains(self.possible_buyers_keys, buyer)
  THEN Err("NotOnPossibleBuyersList", self)
  ELSE IF ~transfer(self, self.price, envOk) THEN Err("TransferError", self)
  ELSE Outcome("Ok", "Client added to buyers list", NoInfo,
               allow_buyer([self EXCEPT !.balance = 0],
                           encripted_symmetric_key, ipfs_song_address, buyer),
               self.balance)

\* variant: the check of lines 224-226 is missing
set_new_allowed_buyer_NoIntentCheck(self, caller, encripted_symmetric_key, ipfs_song_address, buyer, envOk) ==
  IF ~transfer(self, self.price, envOk) THEN Err("TransferError", self)
  ELSE Outcome("Ok", "Client added to buyers list", NoInfo,
               allow_buyer([self EXCEPT !.balance = @ - self.price],
                           encripted_symmetric_key, ipfs_song_address, buyer),
               self.price)

set_new_allowed_buyer(self, caller, encripted_symmetric_key, ipfs_song_address, buyer, envOk) ==
  IF ~contains(self.possible_buyers_keys, buyer)
  THEN Err("NotOnPossibleBuyersList", self)
  ELSE IF ~transfer(self, self.price, envOk) THEN Err("TransferError", self)
  ELSE Outcome("Ok", "Client added to buyers list", NoInfo,
               allow_buyer([self EXCEPT !.balance = @ - self.price],
                           encripted_symmetric_key, ipfs_song_address, buyer),
               self.price)

get_address_and_key_buyer(self, caller) ==
  IF ~contains(self.buyers, caller) THEN Err("NotOnBuyersList", self)
  ELSE Outcome("Ok", "", self.buyers[caller], self, 0)

\* --------------------------------------------------------------- actions
Call(op, caller, target, value, key, loc, envOk, out, depth) ==
  [op |-> op, caller |-> caller, target |-> target, value |-> value, key |-> key,
   loc |-> loc, envOk |-> envOk, res |-> out.res, ret |-> out.ret,
   info |-> out.info, sent |-> out.sent, depth |-> depth]

Commit(out) ==
  /\ buyers' = out.self.buyers
  /\ possible_buyers_keys' = out.self.possible_buyers_keys
  /\ balance' = out.self.balance
  /\ UNCHANGED <<song_info, owner, price>>

Init ==
  \E caller \in Publishers, song \in SongInfos, song_price \in Prices :
    LET self == publish_song(caller, song, song_price) IN
    /\ song_info = self.song_info
    /\ owner = self.owner
    /\ price = self.price
    /\ buyers = self.buyers
    /\ possible_buyers_keys = self.possible_buyers_keys
    /\ balance = self.balance
    /\ last = Call("publish_song", caller, caller, 0, "", "", TRUE,
                   Outcome("Ok", "", NoInfo, self, 0), 0)
    /\ escrowed = [a \in Accounts |-> -1]
    /\ delivered = [a \in Accounts |-> None]
    /\ intentKey = [a \in Accounts |-> None]
    /\ published = [caller |-> caller, song |-> song, price |-> song_price]
    /\ nPosts = 0
    /\ nTransfers = 0
    /\ stack = <<>>

GetSongInfo ==
  /\ stack = <<>>
  /\ \E caller \in Accounts :
       LET r == get_song_info(ContractPublish) IN
       last' = Call("get_song_info", caller, caller, r.price, "", "", TRUE,
                    Outcome("Ok", "", r, ContractPublish, 0), 0)
  /\ UNCHANGED <<storage, balance, escrowed, delivered, intentKey, published,
                 nPosts, nTransfers, stack>>

PostBuyIntention ==
  /\ stack = <<>>
  /\ nPosts < MaxPosts
  /\ \E caller \in Accounts, v \in Values, pk \in PublicKeys :
       LET out == post_buy_intention(ContractPublish, caller, v, pk) IN
       /\ Commit(out)
       /\ last' = Call("post_buy_intention", caller, caller, v, pk, "", TRUE, out, 0)
       /\ escrowed' = IF out.res = "Ok" THEN [escrowed EXCEPT ![caller] = v]
                      ELSE escrowed
       /\ intentKey' = IF out.res = "Ok" THEN [intentKey EXCEPT ![caller] = BuyerPublicKey(pk)]
                       ELSE intentKey
       /\ nPosts' = IF out.res = "Ok" THEN nPosts + 1 ELSE nPosts
  /\ UNCHANGED <<delivered, published, nTransfers, stack>>

GetBuyerPublicKey ==
  /\ stack = <<>>
  /\ \E caller \in Accounts, buyer_key \in Accounts :
       LET out == get_buyer_public_key(ContractPublish, caller, buyer_key) IN
       /\ Commit(out)
       /\ last' = Call("get_buyer_public_key", caller, buyer_key, 0, "", "", TRUE, out, 0)
  /\ UNCHANGED <<escrowed, delivered, intentKey, published, nPosts, nTransfers, stack>>

SetNewAllowedBuyer ==
  /\ stack = <<>>
  /\ \E caller \in Accounts, buyer \in Accounts, d \in Deliveries, envOk \in BOOLEAN :
       LET k == d.key
           loc == d.loc
           out == set_new_allowed_buyer(ContractPublish, caller, k, loc, buyer, envOk) IN
       /\ Commit(out)
       /\ last' = Call("set_new_allowed_buyer", caller, buyer, 0, k, loc, envOk, out, 0)
       /\ nTransfers' = IF out.sent > 0 THEN nTransfers + 1 ELSE nTransfers
       /\ delivered' = IF out.res = "Ok"
                       THEN [delivered EXCEPT ![buyer] = DistributedStorageInfo(loc, k)]
                       ELSE delivered
       /\ intentKey' = IF out.res = "Ok" THEN [intentKey EXCEPT ![buyer] = None]
                       ELSE intentKey
  /\ UNCHANGED <<escrowed, published, nPosts, stack>>

GetAddressAndKeyBuyer ==
  /\ stack = <<>>
  /\ \E caller \in Accounts :
       LET out == get_address_and_key_buyer(ContractPublish, caller) IN
       /\ Commit(out)
       /\ last' = Call("get_address_and_key_buyer", caller, caller, 0, "", "", TRUE, out, 0)
  /\ UNCHANGED <<escrowed, delivered, intentKey, published, nPosts, nTransfers, stack>>

\* The recipient of the native transfer runs code while the transfer of
\* line 228 is in progress and calls set_new_allowed_buyer again: the call is
\* split at the transfer, the frame keeps its arguments until it resumes at
\* line 232.
Frame(caller, key, loc, buyer) == [caller |-> caller, key |-> key, loc |-> loc, buyer |-> buyer]

EnterSetNewAllowedBuyer ==
  /\ Len(stack) < MaxDepth
  /\ \E caller \in Accounts, buyer \in Accounts, d \in Deliveries :
       LET k == d.key
           loc == d.loc IN
       /\ stack # <<>> => caller = owner
       /\ contains(possible_buyers_keys, buyer)
       /\ transfer(ContractPublish, price, TRUE)
       /\ balance' = balance - price
       /\ nTransfers' = nTransfers + 1
       /\ stack' = Append(stack, Frame(caller, k, loc, buyer))
       /\ last' = Call("set_new_allowed_buyer", caller, buyer, 0, k, loc, TRUE,
                       Outcome("InTransfer", "", NoInfo, ContractPublish, price),
                       Len(stack) + 1)
  /\ UNCHANGED <<storage, escrowed, delivered, intentKey, published, nPosts>>

ResumeSetNewAllowedBuyer ==
  /\ stack # <<>>
  /\ LET f == stack[Len(stack)]
         self == allow_buyer(ContractPublish, f.key, f.loc, f.buyer)
     IN /\ buyers' = self.buyers
        /\ possible_buyers_keys' = self.possible_buyers_keys
        /\ delivered' = [delivered EXCEPT ![f.buyer] = DistributedStorageInfo(f.loc, f.key)]
        /\ intentKey' = [intentKey EXCEPT ![f.buyer] = None]
        /\ last' = Call("set_new_allowed_buyer", f.caller, f.buyer, 0, f.key, f.loc, TRUE,
                        Outcome("Ok", "Client added to buyers list", NoInfo, self, price),
                        Len(stack))
  /\ stack' = SubSeq(stack, 1, Len(stack) - 1)
  /\ UNCHANGED <<song_info, owner, price, balance, escrowed, published, nPosts, nTransfers>>

Next ==
  \/ GetSongInfo
  \/ PostBuyIntention
  \/ GetBuyerPublicKey
  \/ SetNewAllowedBuyer
  \/ GetAddressAndKeyBuyer

Spec == Init /\ [][Next]_vars

NextReentrant ==
  \/ GetSongInfo
  \/ PostBuyIntention
  \/ GetBuyerPublicKey
  \/ SetNewAllowedBuyer
  \/ GetAddressAndKeyBuyer
  \/ EnterSetNewAllowedBuyer
  \/ ResumeSetNewAllowedBuyer

SpecReentrant == Init /\ [][NextReentrant]_vars

TypeOK ==
  /\ owner \in Accounts
  /\ price \in Prices
  /\ balance \in Nat
  /\ nPosts \in 0..MaxPosts
  /\ Len(stack) <= MaxDepth
\* ---------------------------------------------------------------- claims
IsPost(c) == c.op = "post_buy_intention"
IsConfirm(c) == c.op = "set_new_allowed_buyer"
IsRetrieve(c) == c.op = "get_address_and_key_buyer"

\* C1: set_new_allowed_buyer called by an account other than the owner fails
\* with CallerIsNotOwner, sends nothing and confirms no account.
C1_OwnerOnly ==
  [][(IsConfirm(last') /\ last'.caller # owner)
       => /\ last'.res = "CallerIsNotOwner"
          /\ last'.sent = 0
          /\ buyers' = buyers]_vars

\* C2: no account is at the same time in possible_buyers_keys and in buyers.
C2_NeverIntentAndConfirmed ==
  \A a \in Accounts : ~(contains(possible_buyers_keys, a) /\ contains(buyers, a))

\* C3: once an account is in buyers, each of its later post_buy_intention
\* calls fails with AlreadyOnList and it never holds an Intent record again.
C3_ConfirmedTerminal ==
  [][\A a \in Accounts :
       contains(buyers, a)
         => /\ ~contains(possible_buyers_keys', a)
            /\ (IsPost(last') /\ last'.caller = a) => last'.res = "AlreadyOnList"]_vars

\* C4: a set_new_allowed_buyer whose transfer is rejected returns TransferError
\* and leaves the target in possible_buyers_keys and out of buyers; the two
\* maps change only in a call whose transfer succeeded.
C4_TransferErrorKeepsIntent ==
  [][IsConfirm(last')
       => /\ (contains(possible_buyers_keys, last'.target) /\ ~last'.envOk)
               => /\ last'.res = "TransferError"
                  /\ last'.sent = 0
                  /\ possible_buyers_keys' = possible_buyers_keys
                  /\ buyers' = buyers
                  /\ balance' = balance
          /\ (possible_buyers_keys' # possible_buyers_keys \/ buyers' # buyers)
               => /\ last'.res = "Ok"
                  /\ last'.envOk
                  /\ last'.sent = price
                  /\ balance' = balance - price]_vars

C4_Witness ==
  /\ IsConfirm(last)
  /\ last.res = "TransferError"
  /\ contains(possible_buyers_keys, last.target)
  /\ ~contains(buyers, last.target)

\* C5: every account in buyers made a successful post_buy_intention with a
\* value of at least the price, and an account enters buyers only from
\* possible_buyers_keys.
C5_NoAccessWithoutPayment ==
  [][\A a \in Accounts :
       contains(buyers', a)
         => /\ escrowed'[a] >= price'
            /\ ~contains(buyers, a) => contains(possible_buyers_keys, a)]_vars

C5_Witness ==
  /\ IsConfirm(last)
  /\ last.res = "Ok"
  /\ contains(buyers, last.target)
  /\ escrowed[last.target] >= price

\* C6: a successful set_new_allowed_buyer sends the owner the value the
\* account attached to its post_buy_intention.
C6_SettlesEscrowedAmount ==
  (IsConfirm(last) /\ last.res = "Ok") => last.sent = escrowed[last.target]

C8_RetrieveReturnsDelivery ==
  IsRetrieve(last)
    => IF delivered[last.caller] # None
       THEN last.res = "Ok" /\ last.info = delivered[last.caller]
       ELSE last.res = "NotOnBuyersList" /\ last.info = NoInfo

C8_Witness ==
  /\ IsRetrieve(last)
  /\ last.res = "Ok"
  /\ last.info = delivered[last.caller]
  /\ \E b \in Accounts : contains(possible_buyers_keys, b) /\ ~contains(buyers, b)

\* C9: post_buy_intention by an account that is in possible_buyers_keys
\* returns AlreadyOnList, keeps the stored key and escrows nothing.
C9_SecondIntentRejected ==
  [][\A a \in Accounts :
       (contains(possible_buyers_keys, a) /\ IsPost(last') /\ last'.caller = a)
         => /\ last'.res = "AlreadyOnList"
            /\ possible_buyers_keys'[a] = possible_buyers_keys[a]
            /\ balance' = balance]_vars

C9_Witness ==
  /\ IsPost(last)
  /\ last.res = "AlreadyOnList"
  /\ contains(possible_buyers_keys, last.caller)
  /\ possible_buyers_keys[last.caller].key # last.key
  /\ last.value >= price

\* C10: post_buy_intention by the owner fails with CallerIsOwner whatever the
\* value, and the owner is never in possible_buyers_keys nor in buyers.
C10_OwnerCannotPost ==
  [][/\ (IsPost(last') /\ last'.caller = owner) => last'.res = "CallerIsOwner"
     /\ ~contains(possible_buyers_keys', owner')
     /\ ~contains(buyers', owner')]_vars

C10_Witness ==
  /\ IsPost(last)
  /\ last.caller = owner
  /\ last.res = "CallerIsOwner"
  /\ last.value >= price
  /\ \E b \in Accounts : contains(buyers, b)
\* the commission of the specification's PaymentEscrow: the listing price
\* divided by a configurable rate, truncating
CommissionRates == {1, 2}
commission(listing_price, commission_rate) == listing_price \div commission_rate

\* C11: post_buy_intention by an account that is not the owner and has no
\* record fails with InsufficientBalance and records nothing when the value
\* is below the price, and otherwise succeeds and records the given key.
C11_PaymentCheck ==
  [][(/\ IsPost(last')
      /\ last'.caller # owner
      /\ ~contains(possible_buyers_keys, last'.caller)
      /\ ~contains(buyers, last'.caller))
       => IF last'.value < price
          THEN /\ last'.res = "InsufficientBalance"
               /\ ~contains(possible_buyers_keys', last'.caller)
               /\ balance' = balance
          ELSE /\ last'.res = "Ok"
               /\ possible_buyers_keys'[last'.caller] = BuyerPublicKey(last'.key)]_vars

C11_Witness ==
  /\ IsPost(last)
  /\ last.res = "InsufficientBalance"
  /\ last.value = price - 1
  /\ ~contains(possible_buyers_keys, last.caller)
  /\ ~contains(buyers, last.caller)
  /\ \E b \in Accounts : possible_buyers_keys[b] = BuyerPublicKey("pk2")

\* C12 as stated: post_buy_intention fails with InsufficientBalance whenever
\* the value is below the price plus the commission, whatever the rate.
C12_ThresholdIncludesCommission ==
  [][\A rate \in CommissionRates :
       (/\ IsPost(last')
        /\ last'.caller # owner
        /\ ~contains(possible_buyers_keys, last'.caller)
        /\ last'.value < price + commission(price, rate))
         => last'.res = "InsufficientBalance"]_vars

\* C12 as amended: the threshold of post_buy_intention is the price alone; a
\* caller that is not the owner and has no Intent record gets
\* InsufficientBalance exactly when the value is below the price, and a value
\* equal to the price is accepted.
C12_ThresholdIsPrice ==
  [][(/\ IsPost(last')
      /\ last'.caller # owner
      /\ ~contains(possible_buyers_keys, last'.caller))
       => /\ (last'.res = "InsufficientBalance") <=> (last'.value < price)
          /\ (last'.value = price) => (last'.res = "Ok" /\ balance' = balance + price)]_vars

C12_Witness ==
  /\ IsPost(last)
  /\ last.res = "Ok"
  /\ last.value = price
  /\ \E rate \in CommissionRates : last.value < price + commission(price, rate)

\* C13: set_new_allowed_buyer for an account that is not in
\* possible_buyers_keys returns NotOnPossibleBuyersList, sends nothing and
\* leaves buyers as it was.
C13_ConfirmNeedsIntent ==
  [][(IsConfirm(last') /\ ~contains(possible_buyers_keys, last'.target))
       => /\ last'.res = "NotOnPossibleBuyersList"
          /\ last'.sent = 0
          /\ buyers' = buyers
          /\ balance' = balance]_vars

C13_Witness ==
  /\ IsConfirm(last)
  /\ last.res = "NotOnPossibleBuyersList"
  /\ contains(buyers, last.target)
  /\ balance >= price
  /\ last.envOk
IsGetKey(c) == c.op = "get_buyer_public_key"
IsGetSong(c) == c.op = "get_song_info"

\* C14: get_buyer_public_key fails with CallerIsNotOwner for every caller
\* other than the owner; for the owner it returns the key the account gave
\* in its pending post_buy_intention, or NotOnPossibleBuyersList if it has
\* none pending.
C14_PendingKeyOwnerOnly ==
  IsGetKey(last)
    => IF last.caller # owner
       THEN last.res = "CallerIsNotOwner" /\ last.ret = ""
       ELSE IF intentKey[last.target] = None
            THEN last.res = "NotOnPossibleBuyersList" /\ last.ret = ""
            ELSE last.res = "Ok" /\ last.ret = intentKey[last.target].key

C14_Witness ==
  /\ IsGetKey(last)
  /\ last.caller = owner
  /\ last.res = "Ok"
  /\ last.ret = "pk2"
  /\ \E b \in Accounts : contains(buyers, b) /\ ~contains(possible_buyers_keys, b)

\* C15: a call of one of the four messages that returns an error leaves the
\* listing, both maps and the contract's balance as they were.
C15_ErrorLeavesStateUnchanged ==
  [][((IsPost(last') \/ IsGetKey(last') \/ IsConfirm(last') \/ IsRetrieve(last'))
      /\ last'.res # "Ok")
       => /\ song_info' = song_info
          /\ owner' = owner
          /\ price' = price
          /\ possible_buyers_keys' = possible_buyers_keys
          /\ buyers' = buyers
          /\ balance' = balance]_vars

C15_Witness ==
  /\ IsConfirm(last)
  /\ last.res = "TransferError"
  /\ balance >= price
  /\ \E b \in Accounts : contains(buyers, b)

\* C16: owner, song metadata and price stay the values given to
\* publish_song, and get_song_info returns that metadata and price to every
\* caller.
C16_ListingFixed ==
  /\ owner = published.caller
  /\ song_info = published.song
  /\ price = published.price
  /\ IsGetSong(last) => last.info = [song_info |-> published.song, price |-> published.price]

C16_Witness ==
  /\ IsGetSong(last)
  /\ last.caller # owner
  /\ last.info.price = published.price
  /\ \E b \in Accounts : contains(buyers, b)

\* C17: a successful set_new_allowed_buyer for an account removes it from
\* possible_buyers_keys and writes it into buyers in the same call, so that
\* the owner's get_buyer_public_key for it then returns
\* NotOnPossibleBuyersList; the entries of every other account stay.
C17_ConfirmMovesOnlyTarget ==
  [][(IsConfirm(last') /\ last'.res = "Ok")
       => /\ contains(possible_buyers_keys, last'.target)
          /\ ~contains(possible_buyers_keys', last'.target)
          /\ buyers'[last'.target] = DistributedStorageInfo(last'.loc, last'.key)
          /\ get_buyer_public_key(ContractPublish', owner', last'.target).res
               = "NotOnPossibleBuyersList"
          /\ \A b \in Accounts \ {last'.target} :
               /\ possible_buyers_keys'[b] = possible_buyers_keys[b]
               /\ buyers'[b] = buyers[b]]_vars

C17_Witness ==
  /\ IsConfirm(last)
  /\ last.res = "Ok"
  /\ ~contains(possible_buyers_keys, last.target)
  /\ \E b \in Accounts \ {last.target} : contains(possible_buyers_keys, b)
Pending == {a \in Accounts : contains(possible_buyers_keys, a)}

\* C18: the contract's balance, zero at publish_song, is always at least the
\* price times the number of accounts in possible_buyers_keys, and a
\* set_new_allowed_buyer for a pending account returns TransferError only
\* when the environment rejects the transfer.
C18_EscrowSolvency ==
  /\ balance >= price * Cardinality(Pending)
  /\ (IsConfirm(last) /\ last.res = "TransferError") => ~last.envOk

C18_Witness ==
  /\ Cardinality(Pending) = 2
  /\ balance = 2 * price
  /\ IsConfirm(last)
  /\ last.res = "TransferError"

\* C19: once an account is in buyers, no later call changes the location and
\* key stored for it.
C19_DeliveryWriteOnce ==
  [][\A a \in Accounts : contains(buyers, a) => buyers'[a] = buyers[a]]_vars

\* C20: post_buy_intention reports the first failing check in the order
\* CallerIsOwner, AlreadyOnList, InsufficientBalance; a pending account that
\* attaches less than the price gets AlreadyOnList.
C20_CheckOrder ==
  [][IsPost(last')
       => last'.res = IF last'.caller = owner THEN "CallerIsOwner"
                      ELSE IF last'.caller \in Pending THEN "AlreadyOnList"
                      ELSE IF last'.value < price THEN "InsufficientBalance"
                      ELSE "Ok"]_vars

C20_Witness ==
  /\ IsPost(last)
  /\ last.res = "AlreadyOnList"
  /\ last.caller \in Pending
  /\ last.value < price
====
